---------------------------- MODULE Spec2Model ----------------------------
(***************************************************************************)
(* A model of the three grid wave simulators fluid.c, gridfluid.c and      *)
(* realfluid.c: the FluidGrid with its two height buffers, update_fluid,   *)
(* the disturbance injectors and the frame loop of main.                   *)
(*                                                                         *)
(* Heights are C floats.  They are modelled as fixed-point integers, SCALE *)
(* units per 1.0, every assignment rounding to the nearest unit.  The      *)
(* coordinate arithmetic of add_continuous_wave, whose float results are   *)
(* truncated to int, is modelled bit-exactly as IEEE-754 binary32          *)
(* (round to nearest, ties to even, one rounding per operation).           *)
(***************************************************************************)
EXTENDS Integers, Sequences, FiniteSets

VARIABLES
    variant,        \* the program: "fluid", "gridfluid" or "realfluid"
    GRID_WIDTH,     \* WIDTH / CELL_SIZE of the build
    GRID_HEIGHT,    \* HEIGHT / CELL_SIZE of the build
    fluid,          \* FluidGrid: [current, previous: a block or NULL, damping]
    heap,           \* the float blocks calloc hands out: block -> idx -> height
    frenderer,      \* FluidRenderer: [pixels: a block or NULL]
    pc,             \* where main is
    running,
    mouse_down,
    prev_mouse_x,
    prev_mouse_y,
    pending,        \* events SDL_PollEvent will still deliver
    frames,         \* frames completed
    log,            \* the calls made on the grid, with their arguments, in order
    calls,          \* injector calls made so far
    updates         \* update_fluid calls made so far

vars == <<variant, GRID_WIDTH, GRID_HEIGHT, fluid, heap, frenderer, pc, running,
          mouse_down, prev_mouse_x, prev_mouse_y, pending, frames, log, calls,
          updates>>

NULL == 0

-----------------------------------------------------------------------------
(* Integer helpers.                                                        *)

Abs(n) == IF n < 0 THEN -n ELSE n

Sign(n) == IF n < 0 THEN -1 ELSE IF n > 0 THEN 1 ELSE 0

\* C's conversion of a quotient to int: truncation toward zero (d > 0).
TruncDiv(n, d) == IF n >= 0 THEN n \div d ELSE -((-n) \div d)

\* Nearest integer to n/d, halves away from zero (d > 0).
RoundDiv(n, d) == Sign(n) * ((2 * Abs(n) + d) \div (2 * d))

Pow2(k) == 2 ^ k

RECURSIVE IsqrtFrom(_, _)
IsqrtFrom(n, r) == IF (r + 1) * (r + 1) > n THEN r ELSE IsqrtFrom(n, r + 1)

\* floor(sqrt(n)).
Isqrt(n) == IsqrtFrom(n, 0)

-----------------------------------------------------------------------------
(* IEEE-754 binary32, as far as add_continuous_wave needs it.  A float is  *)
(* [m, e], the number m * 2^e, with 2^23 <= |m| < 2^24 or m = 0.           *)

F32Zero == [m |-> 0, e |-> 0]

RECURSIVE F32Shrink(_, _, _)
\* n * 2^e, n > 0, plus a sticky bit for what was already cut off, brought
\* down to at most 25 bits: the 24 of the mantissa and one guard bit.
F32Shrink(n, e, sticky) ==
    IF n < Pow2(25) THEN [n |-> n, e |-> e, sticky |-> sticky]
    ELSE F32Shrink(n \div 2, e + 1, sticky \/ (n % 2 = 1))

RECURSIVE F32Grow(_, _)
\* n * 2^e, n > 0, brought up to at least 24 bits (exact).
F32Grow(n, e) == IF n >= Pow2(23) THEN [m |-> n, e |-> e] ELSE F32Grow(2 * n, e - 1)

\* Round n * 2^e (n > 0, with a sticky bit below it) to 24 bits, ties to even.
F32RoundPos(n, e, sticky) ==
    LET s == F32Shrink(n, e, sticky) IN
    IF s.n < Pow2(24) THEN F32Grow(s.n, s.e)
    ELSE LET q     == s.n \div 2
             guard == s.n % 2 = 1
             up    == guard /\ (s.sticky \/ q % 2 = 1)
             r     == IF up THEN q + 1 ELSE q
         IN  IF r = Pow2(24) THEN [m |-> Pow2(23), e |-> s.e + 2]
             ELSE [m |-> r, e |-> s.e + 1]

F32Round(n, e, sticky) ==
    IF n = 0 THEN F32Zero
    ELSE LET r == F32RoundPos(Abs(n), e, sticky) IN [m |-> Sign(n) * r.m, e |-> r.e]

\* (float)a / (float)b for ints 0 <= a <= b, 0 < b < 2^15: the correctly
\* rounded quotient.  a is first doubled j times into [b, 2b), so that the
\* quotient lies in [1, 2); its 25 leading bits are then divided out in two
\* stages (17 and 8 bits), the last remainder being the sticky bit.
F32DivInt(a, b) ==
    IF a = 0 THEN F32Zero
    ELSE LET j  == CHOOSE k \in 0..15 : a * (2 ^ k) >= b /\ (k = 0 \/ a * (2 ^ (k - 1)) < b)
             a2 == a * (2 ^ j)
             q1 == (a2 * (2 ^ 16)) \div b
             r1 == (a2 * (2 ^ 16)) % b
             q2 == (r1 * (2 ^ 8)) \div b
             r2 == (r1 * (2 ^ 8)) % b
         IN  F32Round(q1 * (2 ^ 8) + q2, -24 - j, r2 # 0)

\* k * x for an int k (|k| < 128, exact as a float) and a float x.
F32MulInt(k, x) == F32Round(k * x.m, x.e, FALSE)

\* (int)(a + x): the float sum of an int a (|a| < 64) and a float x (|x| < 64),
\* truncated toward zero.  The sum is formed exactly in units of 2^-24; bits of x
\* below that unit exist only when |x| < 1/2, and are kept as the sticky bit.
F32TruncAddInt(a, x) ==
    LET shift  == -24 - x.e
        xs     == IF x.m = 0 THEN 0
                  ELSE IF shift <= 0 THEN x.m * Pow2(-shift)
                  ELSE Sign(x.m) * (Abs(x.m) \div Pow2(shift))
        sticky == x.m # 0 /\ shift > 0 /\ Abs(x.m) % Pow2(shift) # 0
        \* a and x of opposite sign: the cut-off bits pull the sum toward zero
        n0     == a * Pow2(24) + xs
        n      == IF sticky /\ Sign(x.m) # Sign(n0) /\ n0 # 0
                  THEN n0 - Sign(n0) ELSE n0
        s      == F32Round(n, -24, sticky)
    IN  IF s.m = 0 \/ s.e <= -24 THEN 0
        ELSE IF s.e >= 0 THEN s.m * Pow2(s.e)
        ELSE Sign(s.m) * (Abs(s.m) \div Pow2(-s.e))

-----------------------------------------------------------------------------
(* The samples of add_continuous_wave.                                     *)

\* WaveSteps with one sample for every two cells of distance.
WaveSteps_Sparse(v, dx, dy) == (Isqrt(dx * dx + dy * dy) \div 2) + 1

\* steps: (int)(distance * 2.0f) + 1 in gridfluid.c, (int)(distance * 1.5f) + 1
\* in realfluid.c, distance = sqrtf(dx*dx + dy*dy) of two ints.
WaveSteps(v, dx, dy) ==
    LET d2 == dx * dx + dy * dy IN
    IF v = "gridfluid" THEN Isqrt(4 * d2) + 1 ELSE (Isqrt(9 * d2) \div 2) + 1

\* t: (float)i / (float)steps in gridfluid.c, i * inv_steps in realfluid.c.
WaveT(v, i, steps) ==
    IF v = "gridfluid" THEN F32DivInt(i, steps)
    ELSE F32MulInt(i, F32DivInt(1, steps))

\* The i-th sample: cx = (int)(x1 + dx * t), cy = (int)(y1 + dy * t).
WaveSample(v, x1, y1, dx, dy, i, steps) ==
    LET t == WaveT(v, i, steps) IN
    <<F32TruncAddInt(x1, F32MulInt(dx, t)), F32TruncAddInt(y1, F32MulInt(dy, t))>>

\* float current_intensity = intensity * (1.0f - t * 0.3f), in height units,
\* t taken as i / steps.
WaveIntensity(intensity, i, steps) ==
    RoundDiv(intensity * (10 * steps - 3 * i), 10 * steps)

-----------------------------------------------------------------------------
(* The grid and its memory.                                                *)

Variants == {"fluid", "gridfluid", "realfluid"}

\* Fixed-point units per 1.0 of a float height.
SCALE == 1000

\* fluid->damping = 0.99f, in hundredths.
DAMPING == 99

Blocks == {1, 2}

Cells == 0 .. (GRID_WIDTH * GRID_HEIGHT - 1)

\* int idx = y * GRID_WIDTH + x
Idx(x, y) == y * GRID_WIDTH + x

\* What calloc returns on success.
ZeroBlock == [i \in Cells |-> 0]

\* The part of the process an injector or update_fluid works on: the struct,
\* the blocks, and whether an access has gone outside a block or through NULL.
Machine == [fluid |-> fluid, heap |-> heap, fault |-> FALSE]

Valid(ptr, idx) == ptr # NULL /\ idx \in Cells

\* ptr[idx] += delta
AddAt(m, ptr, idx, delta) ==
    IF m.fault THEN m
    ELSE IF ~Valid(ptr, idx) THEN [m EXCEPT !.fault = TRUE]
    ELSE [m EXCEPT !.heap[ptr][idx] = @ + delta]

-----------------------------------------------------------------------------
(* update_fluid                                                            *)

\* StencilValue as a sweep in place: the left and the upper neighbour are read
\* from the buffer being written.
StencilValue_InPlaceSweep(m, idx) ==
    LET P == m.heap[m.fluid.previous]
        C == m.heap[m.fluid.current]
        laplacian == C[idx - 1] + P[idx + 1] + C[idx - GRID_WIDTH]
                     + P[idx + GRID_WIDTH] - 4 * P[idx]
    IN  RoundDiv(m.fluid.damping * (8 * P[idx] - 4 * C[idx] + laplacian), 400)

\* StencilValue with the neighbours read from the buffer being written.
StencilValue_ReadsCurrent(m, idx) ==
    LET P == m.heap[m.fluid.previous]
        C == m.heap[m.fluid.current]
        laplacian == C[idx - 1] + C[idx + 1] + C[idx - GRID_WIDTH]
                     + C[idx + GRID_WIDTH] - 4 * P[idx]
    IN  RoundDiv(m.fluid.damping * (8 * P[idx] - 4 * C[idx] + laplacian), 400)

\* StencilValue with the damping left out.
StencilValue_Undamped(m, idx) ==
    LET P == m.heap[m.fluid.previous]
        C == m.heap[m.fluid.current]
        laplacian == P[idx - 1] + P[idx + 1] + P[idx - GRID_WIDTH]
                     + P[idx + GRID_WIDTH] - 4 * P[idx]
    IN  RoundDiv(8 * P[idx] - 4 * C[idx] + laplacian, 4)

\* The value update_fluid stores into current[idx]:
\* (2.0f * previous[idx] - current[idx] + laplacian * 0.25f) * damping
StencilValue(m, idx) ==
    LET P == m.heap[m.fluid.previous]
        C == m.heap[m.fluid.current]
        laplacian == P[idx - 1] + P[idx + 1] + P[idx - GRID_WIDTH]
                     + P[idx + GRID_WIDTH] - 4 * P[idx]
    IN  RoundDiv(m.fluid.damping * (8 * P[idx] - 4 * C[idx] + laplacian), 400)

\* One pass of the inner loop body.
UpdateCell(m, idx) ==
    IF m.fault THEN m
    ELSE IF ~(Valid(m.fluid.previous, idx - GRID_WIDTH)
              /\ Valid(m.fluid.previous, idx + GRID_WIDTH)
              /\ Valid(m.fluid.current, idx))
    THEN [m EXCEPT !.fault = TRUE]
    ELSE [m EXCEPT !.heap[m.fluid.current][idx] = StencilValue(m, idx)]

RECURSIVE UpdateRow_ToEdge(_, _, _)
\* UpdateRow with the loop running on into the right-hand border column.
UpdateRow_ToEdge(m, y, x) ==
    IF x < GRID_WIDTH
    THEN LET m1 == UpdateCell(m, Idx(x, y)) IN
         IF m1.fault THEN m1 ELSE UpdateRow_ToEdge(m1, y, x + 1)
    ELSE m

RECURSIVE UpdateRow(_, _, _)
\* for (x = ...; x < GRID_WIDTH - 1; x++)
UpdateRow(m, y, x) ==
    IF x < GRID_WIDTH - 1
    THEN LET m1 == UpdateCell(m, Idx(x, y)) IN
         IF m1.fault THEN m1 ELSE UpdateRow(m1, y, x + 1)
    ELSE m

RECURSIVE UpdateRows(_, _)
\* for (y = ...; y < GRID_HEIGHT - 1; y++)
UpdateRows(m, y) ==
    IF y < GRID_HEIGHT - 1
    THEN LET m1 == UpdateRow(m, y, 1) IN
         IF m1.fault THEN m1 ELSE UpdateRows(m1, y + 1)
    ELSE m

\* float *temp = current; current = previous; previous = temp;
SwapBuffers(m) ==
    IF m.fault THEN m
    ELSE [m EXCEPT !.fluid.current = m.fluid.previous,
                   !.fluid.previous = m.fluid.current]

update_fluid(m) == SwapBuffers(UpdateRows(m, 1))

-----------------------------------------------------------------------------
(* The injectors.                                                          *)

\* x >= 1 && x < GRID_WIDTH - 1 && y >= 1 && y < GRID_HEIGHT - 1
InGuard(x, y, margin) ==
    x >= margin /\ x < GRID_WIDTH - margin /\ y >= margin /\ y < GRID_HEIGHT - margin

\* The k-th (dx, dy) of the two nested loops for dy, dx in -r..r, in loop order.
Offset(r, k) == <<((k - 1) % (2 * r + 1)) - r, ((k - 1) \div (2 * r + 1)) - r>>

RECURSIVE AddNeighbours(_, _, _, _, _)
\* fluid.c: previous[nidx] += intensity * 0.5f for the 8 neighbours.
AddNeighbours(m, x, y, intensity, k) ==
    IF k > 9 THEN m
    ELSE LET o == Offset(1, k) IN
         IF o = <<0, 0>> THEN AddNeighbours(m, x, y, intensity, k + 1)
         ELSE LET m1 == AddAt(m, m.fluid.previous, Idx(x + o[1], y + o[2]),
                               RoundDiv(intensity, 2))
              IN  IF m1.fault THEN m1 ELSE AddNeighbours(m1, x, y, intensity, k + 1)

\* add_disturbance with an off-range coordinate clamped to the nearest edge cell.
add_disturbance_Clamped(v, m, x, y, intensity) ==
    LET cx == IF x < 0 THEN 0 ELSE IF x > GRID_WIDTH - 1 THEN GRID_WIDTH - 1 ELSE x
        cy == IF y < 0 THEN 0 ELSE IF y > GRID_HEIGHT - 1 THEN GRID_HEIGHT - 1 ELSE y
    IN  AddAt(m, m.fluid.previous, Idx(cx, cy), intensity)

add_disturbance(v, m, x, y, intensity) ==
    IF ~InGuard(x, y, 1) THEN m
    ELSE LET m1 == AddAt(m, m.fluid.previous, Idx(x, y), intensity) IN
         IF v = "fluid" THEN AddNeighbours(m1, x, y, intensity, 1) ELSE m1

\* The radial kernels, in thousandths, by squared distance d2 = dx*dx + dy*dy
\* (dist = sqrtf(d2)):
\*   "line"      falloff * 0.5f, falloff = 1.0f - dist / 2.0f  (gridfluid.c)
\*   "velocity"  cosf(dist * 0.8f) * (1.0f - dist / 3.0f)      (gridfluid.c)
\*   "drop"      cosf(dist * 1.5f) * expf(-dist * dist * 0.3f) (realfluid.c)
\*   "drag"      1.0f - dist / 2.0f                            (fluid.c, main)
Kernel(kind, d2) ==
    CASE kind = "line" ->
           (CASE d2 = 0 -> 500 [] d2 = 1 -> 250 [] d2 = 2 -> 146 [] OTHER -> 0)
      [] kind = "velocity" ->
           (CASE d2 = 0 -> 1000 [] d2 = 1 -> 464 [] d2 = 2 -> 225 [] d2 = 4 -> -10
              [] d2 = 5 -> -55 [] d2 = 8 -> -36 [] OTHER -> 0)
      [] kind = "drop" ->
           (CASE d2 = 0 -> 1000 [] d2 = 1 -> 52 [] d2 = 2 -> -287 [] d2 = 4 -> -298
              [] d2 = 5 -> -218 [] d2 = 8 -> -41 [] OTHER -> -14)
      [] OTHER ->
           (CASE d2 = 0 -> 1000 [] d2 = 1 -> 500 [] d2 = 2 -> 293 [] OTHER -> 0)

RECURSIVE AddDisk(_, _, _, _, _, _, _, _)
\* for dy, dx in -r..r: if (dist <= r) add_disturbance(x + dx, y + dy, intensity * kernel)
AddDisk(v, m, x, y, intensity, r, kind, k) ==
    IF k > (2 * r + 1) * (2 * r + 1) THEN m
    ELSE LET o  == Offset(r, k)
             d2 == o[1] * o[1] + o[2] * o[2]
         IN  IF d2 > r * r THEN AddDisk(v, m, x, y, intensity, r, kind, k + 1)
             ELSE LET m1 == add_disturbance(v, m, x + o[1], y + o[2],
                                            RoundDiv(intensity * Kernel(kind, d2), 1000))
                  IN  IF m1.fault THEN m1
                      ELSE AddDisk(v, m1, x, y, intensity, r, kind, k + 1)

RECURSIVE WaveLoop(_, _, _, _, _, _, _, _, _)
\* for (int i = 0; i <= steps; i++)
WaveLoop(v, m, x1, y1, dx, dy, intensity, steps, i) ==
    IF i > steps THEN m
    ELSE LET c  == WaveSample(v, x1, y1, dx, dy, i, steps)
             ci == WaveIntensity(intensity, i, steps)
             m1 == IF v = "gridfluid" THEN AddDisk(v, m, c[1], c[2], ci, 2, "line", 1)
                   ELSE IF InGuard(c[1], c[2], 2) THEN add_disturbance(v, m, c[1], c[2], ci)
                   ELSE m
         IN  IF m1.fault THEN m1
             ELSE WaveLoop(v, m1, x1, y1, dx, dy, intensity, steps, i + 1)

\* add_continuous_wave without the early return for distance < 1.0f.
add_continuous_wave_NoShortcut(v, m, x1, y1, x2, y2, intensity) ==
    WaveLoop(v, m, x1, y1, x2 - x1, y2 - y1, intensity,
             WaveSteps(v, x2 - x1, y2 - y1), 0)

add_continuous_wave(v, m, x1, y1, x2, y2, intensity) ==
    LET dx == x2 - x1
        dy == y2 - y1
    IN  IF dx * dx + dy * dy < 1 THEN add_disturbance(v, m, x1, y1, intensity)
        ELSE WaveLoop(v, m, x1, y1, dx, dy, intensity, WaveSteps(v, dx, dy), 0)

\* gridfluid.c
add_velocity_field(v, m, x, y, intensity) ==
    IF InGuard(x, y, 2) THEN AddDisk(v, m, x, y, intensity, 3, "velocity", 1) ELSE m

\* realfluid.c
add_water_drop(v, m, x, y, intensity) ==
    IF InGuard(x, y, 3) THEN AddDisk(v, m, x, y, intensity, 3, "drop", 1) ELSE m

-----------------------------------------------------------------------------
(* Calls on a grid that init_fluid has set up.                             *)

Call(op, x1, y1, x2, y2, intensity) ==
    [op |-> op, x1 |-> x1, y1 |-> y1, x2 |-> x2, y2 |-> y2, intensity |-> intensity]

\* The process after a call: a fault ends it.
Commit(m, c) ==
    /\ fluid' = m.fluid
    /\ heap' = m.heap
    /\ log' = Append(log, c)
    /\ pc' = IF m.fault THEN "crashed" ELSE pc

\* The state init_fluid leaves when both calloc calls succeed, in a build
\* <<variant, GRID_WIDTH, GRID_HEIGHT>>.
GridReady(builds) ==
    /\ \E b \in builds : variant = b[1] /\ GRID_WIDTH = b[2] /\ GRID_HEIGHT = b[3]
    /\ fluid = [current |-> 1, previous |-> 2, damping |-> DAMPING]
    /\ heap = [b \in Blocks |-> ZeroBlock]
    /\ frenderer = [pixels |-> NULL]
    /\ pc = "api"
    /\ running = 1
    /\ mouse_down = 0
    /\ prev_mouse_x = -1
    /\ prev_mouse_y = -1
    /\ pending = 0
    /\ frames = 0
    /\ log = <<>>
    /\ calls = 0
    /\ updates = 0

LoopFrame ==
    UNCHANGED <<variant, GRID_WIDTH, GRID_HEIGHT, frenderer, running, mouse_down,
                prev_mouse_x, prev_mouse_y, pending, frames>>

CallAddDisturbance(x, y, intensity) ==
    /\ Commit(add_disturbance(variant, Machine, x, y, intensity),
              Call("add_disturbance", x, y, x, y, intensity))
    /\ calls' = calls + 1
    /\ UNCHANGED updates
    /\ LoopFrame

CallAddContinuousWave(x1, y1, x2, y2, intensity) ==
    /\ variant # "fluid"
    /\ Commit(add_continuous_wave(variant, Machine, x1, y1, x2, y2, intensity),
              Call("add_continuous_wave", x1, y1, x2, y2, intensity))
    /\ calls' = calls + 1
    /\ UNCHANGED updates
    /\ LoopFrame

CallAddVelocityField(x, y, intensity) ==
    /\ variant = "gridfluid"
    /\ Commit(add_velocity_field(variant, Machine, x, y, intensity),
              Call("add_velocity_field", x, y, x, y, intensity))
    /\ calls' = calls + 1
    /\ UNCHANGED updates
    /\ LoopFrame

CallAddWaterDrop(x, y, intensity) ==
    /\ variant = "realfluid"
    /\ Commit(add_water_drop(variant, Machine, x, y, intensity),
              Call("add_water_drop", x, y, x, y, intensity))
    /\ calls' = calls + 1
    /\ UNCHANGED updates
    /\ LoopFrame

CallUpdateFluid ==
    /\ Commit(update_fluid(Machine), Call("update_fluid", 0, 0, 0, 0, 0))
    /\ updates' = updates + 1
    /\ UNCHANGED calls
    /\ LoopFrame

-----------------------------------------------------------------------------
(* SpecStep: point injections and steps on a 10 x 10 grid.                 *)

MaxStepCalls == 2

MaxStepUpdates == 2

StepBuilds == Variants \X {10} \X {10}

StepIntensities == {10 * SCALE, -4 * SCALE}

StepPoints == {<<5, 5>>, <<4, 5>>, <<1, 1>>, <<8, 8>>, <<1, 6>>, <<0, 3>>, <<6, 9>>, <<7, 2>>}

StepInit == GridReady(StepBuilds)

StepInject ==
    /\ pc = "api" /\ calls < MaxStepCalls
    /\ \E p \in StepPoints, i \in StepIntensities : CallAddDisturbance(p[1], p[2], i)

StepUpdate ==
    /\ pc = "api" /\ updates < MaxStepUpdates
    /\ CallUpdateFluid

StepNext == StepInject \/ StepUpdate

SpecStep == StepInit /\ [][StepNext]_vars

-----------------------------------------------------------------------------
(* SpecApi: every injector of the variant, with arguments on, inside and   *)
(* outside every guard.                                                    *)

MaxApiCalls == 2

MaxApiUpdates == 1

\* One build per variant; the grid of realfluid is wide enough for a segment of
\* 41 steps.
ApiBuilds == {<<"fluid", 10, 10>>, <<"gridfluid", 12, 8>>, <<"realfluid", 32, 7>>}

ApiIntensity == 10 * SCALE

\* Targets of add_disturbance: the centre, and every side of the guard on the
\* border, next to it inside and next to it outside.
ApiPoints ==
    LET xs == {-1, 0, 1, GRID_WIDTH - 2, GRID_WIDTH - 1, GRID_WIDTH}
        ys == {-1, 0, 1, GRID_HEIGHT - 2, GRID_HEIGHT - 1, GRID_HEIGHT}
    IN  {<<5, 5>>} \cup {<<x, 3>> : x \in xs} \cup {<<5, y>> : y \in ys}
        \cup {<<0, 0>>, <<GRID_WIDTH - 1, GRID_HEIGHT - 1>>}

\* Segments of add_continuous_wave: <<x1, y1, x2, y2>>.
ApiSegments ==
    LET a == <<2, 2>>
        b == <<GRID_WIDTH - 3, GRID_HEIGHT - 3>>
    IN  {<<0, 0, 10, 0>>, <<a[1], a[2], b[1], b[2]>>, <<b[1], b[2], a[1], a[2]>>,
         <<5, 3, 2, 4>>, <<-1, 1, 3, 4>>, <<4, 3, 5, 3>>,
         <<5, 3, 5, 3>>, <<0, 0, 0, 0>>, <<1, 1, 1, 1>>, <<-1, 1, -1, 1>>}

\* Centres of add_velocity_field and add_water_drop.
ApiCentres ==
    ({1, 2, 3, GRID_WIDTH - 4, GRID_WIDTH - 3} \X {3})
    \cup ({4} \X {2, GRID_HEIGHT - 4, GRID_HEIGHT - 3})

ApiInit == GridReady(ApiBuilds)

ApiAddDisturbance ==
    /\ pc = "api" /\ calls < MaxApiCalls
    /\ \/ \E p \in ApiPoints : CallAddDisturbance(p[1], p[2], ApiIntensity)
       \/ CallAddDisturbance(5, 5, -ApiIntensity)

ApiAddContinuousWave ==
    /\ pc = "api" /\ calls < MaxApiCalls
    /\ \/ \E g \in ApiSegments : CallAddContinuousWave(g[1], g[2], g[3], g[4], ApiIntensity)
       \/ CallAddContinuousWave(5, 3, 2, 4, -ApiIntensity)

ApiAddVelocityField ==
    /\ pc = "api" /\ calls < MaxApiCalls
    /\ \E p \in ApiCentres : CallAddVelocityField(p[1], p[2], ApiIntensity)

ApiAddWaterDrop ==
    /\ pc = "api" /\ calls < MaxApiCalls
    /\ \E p \in ApiCentres : CallAddWaterDrop(p[1], p[2], ApiIntensity)

ApiUpdateFluid ==
    /\ pc = "api" /\ updates < MaxApiUpdates
    /\ CallUpdateFluid

ApiNext ==
    \/ ApiAddDisturbance
    \/ ApiAddContinuousWave
    \/ ApiAddVelocityField
    \/ ApiAddWaterDrop
    \/ ApiUpdateFluid

SpecApi == ApiInit /\ [][ApiNext]_vars

-----------------------------------------------------------------------------
(* Spec: main.  Start-up, the frame loop with its event switch, shutdown.  *)

MaxEvents == 3

MaxFrames == 2

MaxLiveEvents == 2

MainBuilds == Variants \X {8} \X {8}

\* #define CELL_SIZE
CELL_SIZE == IF variant = "fluid" THEN 2 ELSE 1

\* Grid cells under the pointer, and the window pixels of the events.
MouseCells == {<<4, 4>>, <<2, 3>>, <<0, 6>>}

MousePixels == {<<c[1] * CELL_SIZE + (CELL_SIZE - 1), c[2] * CELL_SIZE>> : c \in MouseCells}

\* rand() % (GRID_WIDTH - 2 * k) + k: the two ends of the range.
RandCells ==
    LET k == CASE variant = "fluid" -> 1 [] variant = "gridfluid" -> 2 [] OTHER -> 3
    IN  {<<k, k>>, <<GRID_WIDTH - 1 - k, GRID_HEIGHT - 1 - k>>}

\* What the two calloc calls of init_fluid can return at start-up: a block
\* each, or NULL.
StartAllocs == {1, NULL} \X {2, NULL}

\* What they can return after free_fluid: the freed blocks in either order, or
\* NULL.
ResetAllocs == {<<1, 2>>, <<2, 1>>, <<NULL, 1>>, <<1, NULL>>, <<NULL, NULL>>}

init_fluid(m, a) ==
    [m EXCEPT !.fluid = [current |-> a[1], previous |-> a[2], damping |-> DAMPING],
              !.heap = [b \in Blocks |-> ZeroBlock]]

\* free(fluid->current); free(fluid->previous): the struct keeps the pointers.
free_fluid(m) == m

\* render_fluid (update_fluid_texture in realfluid.c) reads current[idx] of
\* every cell, and realfluid.c writes pixels[idx].
render_fluid(m) ==
    IF m.fluid.current = NULL \/ (variant = "realfluid" /\ frenderer.pixels = NULL)
    THEN [m EXCEPT !.fault = TRUE]
    ELSE m

NoCall(op) == Call(op, 0, 0, 0, 0, 0)

\* The process after a handler that made the calls cs and goes on at next.
Handled(m, cs, next) ==
    /\ fluid' = m.fluid
    /\ heap' = m.heap
    /\ log' = log \o cs
    /\ pc' = IF m.fault THEN "crashed" ELSE next

Build == UNCHANGED <<variant, GRID_WIDTH, GRID_HEIGHT>>

\* main before SDL_Init, with n events to come.
MainStart(n) ==
    /\ \E b \in MainBuilds : variant = b[1] /\ GRID_WIDTH = b[2] /\ GRID_HEIGHT = b[3]
    /\ fluid = [current |-> NULL, previous |-> NULL, damping |-> 0]
    /\ heap = [b \in Blocks |-> ZeroBlock]
    /\ frenderer = [pixels |-> NULL]
    /\ pc = "start"
    /\ running = 1
    /\ mouse_down = 0
    /\ prev_mouse_x = -1
    /\ prev_mouse_y = -1
    /\ pending = n
    /\ frames = 0
    /\ log = <<>>
    /\ calls = 0
    /\ updates = 0

MainInit == MainStart(MaxEvents)

\* SDL_Init, SDL_CreateWindow and SDL_CreateRenderer succeed.
StartSDL ==
    /\ pc = "start"
    /\ pc' = "init_fluid"
    /\ UNCHANGED <<fluid, heap, frenderer, running, mouse_down, prev_mouse_x,
                   prev_mouse_y, pending, frames, log, calls, updates>>
    /\ Build

\* One of them fails: return 1.
StartSDLFails ==
    /\ pc = "start"
    /\ pc' = "failed"
    /\ UNCHANGED <<fluid, heap, frenderer, running, mouse_down, prev_mouse_x,
                   prev_mouse_y, pending, frames, log, calls, updates>>
    /\ Build

\* init_fluid(&fluid); its result is not looked at.
InitFluid ==
    /\ pc = "init_fluid"
    /\ \E a \in StartAllocs :
          Handled(init_fluid(Machine, a), <<NoCall("init_fluid")>>,
                  IF variant = "realfluid" THEN "init_fluid_renderer" ELSE "loop")
    /\ UNCHANGED <<frenderer, running, mouse_down, prev_mouse_x, prev_mouse_y,
                   pending, frames, calls, updates>>
    /\ Build

\* if (!init_fluid_renderer(renderer, &frenderer)) return 1;
\* the texture or the pixel buffer may be refused.
InitFluidRenderer ==
    /\ pc = "init_fluid_renderer"
    /\ \E got \in {"no texture", "no pixels", "ready"} :
          /\ frenderer' = [pixels |-> IF got = "ready" THEN 1 ELSE NULL]
          /\ pc' = IF got = "ready" THEN "loop" ELSE "failed"
    /\ UNCHANGED <<fluid, heap, running, mouse_down, prev_mouse_x, prev_mouse_y,
                   pending, frames, log, calls, updates>>
    /\ Build

\* while (running)
LoopTest ==
    /\ pc = "loop"
    /\ running = 1 => frames < MaxFrames
    /\ pc' = IF running = 1 THEN "poll" ELSE "exit"
    /\ UNCHANGED <<fluid, heap, frenderer, running, mouse_down, prev_mouse_x,
                   prev_mouse_y, pending, frames, log, calls, updates>>
    /\ Build

\* SDL_PollEvent returns an event.
Polled ==
    /\ pc = "poll"
    /\ pending > 0
    /\ pending' = pending - 1
    /\ UNCHANGED <<frenderer, frames, updates>>
    /\ Build

\* OnQuit leaving the loop at once, the frame unfinished.
OnQuit_Immediate ==
    /\ Polled
    /\ running' = 0
    /\ pc' = "exit"
    /\ UNCHANGED <<fluid, heap, mouse_down, prev_mouse_x, prev_mouse_y, log, calls>>

\* case SDL_QUIT
OnQuit ==
    /\ Polled
    /\ running' = 0
    /\ UNCHANGED <<fluid, heap, pc, mouse_down, prev_mouse_x, prev_mouse_y, log, calls>>

\* case SDL_MOUSEBUTTONDOWN
OnMouseButtonDown ==
    /\ Polled
    /\ \E left \in BOOLEAN, e \in MousePixels :
          LET x == TruncDiv(e[1], CELL_SIZE)
              y == TruncDiv(e[2], CELL_SIZE)
          IN  IF variant = "fluid"
              THEN /\ mouse_down' = 1
                   /\ UNCHANGED <<prev_mouse_x, prev_mouse_y>>
                   /\ IF left
                      THEN /\ Handled(add_disturbance(variant, Machine, x, y, 15 * SCALE),
                                      <<Call("add_disturbance", x, y, x, y, 15 * SCALE)>>,
                                      pc)
                           /\ calls' = calls + 1
                      ELSE UNCHANGED <<fluid, heap, log, pc, calls>>
              ELSE IF left
              THEN /\ mouse_down' = 1
                   /\ prev_mouse_x' = x
                   /\ prev_mouse_y' = y
                   /\ calls' = calls + 1
                   /\ IF variant = "gridfluid"
                      THEN Handled(add_velocity_field(variant, Machine, x, y, 25 * SCALE),
                                   <<Call("add_velocity_field", x, y, x, y, 25 * SCALE)>>,
                                   pc)
                      ELSE Handled(add_water_drop(variant, Machine, x, y, 20 * SCALE),
                                   <<Call("add_water_drop", x, y, x, y, 20 * SCALE)>>, pc)
              ELSE UNCHANGED <<fluid, heap, log, pc, calls, mouse_down, prev_mouse_x,
                               prev_mouse_y>>
    /\ UNCHANGED running

\* gridfluid.c and realfluid.c, inside if (prev_mouse_x != -1 && ...): m1 is the
\* process after add_continuous_wave, the call w; gridfluid.c goes on with
\* add_velocity_field at the pointer.
DragTrail(m1, w, x, y) ==
    IF variant = "gridfluid" /\ ~m1.fault
    THEN /\ Handled(add_velocity_field(variant, m1, x, y, 15 * SCALE),
                    <<w, Call("add_velocity_field", x, y, x, y, 15 * SCALE)>>, pc)
         /\ calls' = calls + 2
    ELSE /\ Handled(m1, <<w>>, pc)
         /\ calls' = calls + 1

\* DragTo without prev_mouse_x = current_x; prev_mouse_y = current_y.
DragTo_FromPress(x, y) ==
    IF variant = "fluid"
    THEN /\ Handled(AddDisk(variant, Machine, x, y, 8 * SCALE, 2, "drag", 1),
                    <<Call("add_disturbance", x - 2, y - 2, x + 2, y + 2, 8 * SCALE)>>, pc)
         /\ calls' = calls + 1
         /\ UNCHANGED <<prev_mouse_x, prev_mouse_y>>
    ELSE /\ UNCHANGED <<prev_mouse_x, prev_mouse_y>>
         /\ IF prev_mouse_x # -1 /\ prev_mouse_y # -1
            THEN DragTrail(add_continuous_wave(variant, Machine, prev_mouse_x, prev_mouse_y,
                                               x, y,
                                               IF variant = "gridfluid" THEN 20 * SCALE
                                               ELSE 15 * SCALE),
                           Call("add_continuous_wave", prev_mouse_x, prev_mouse_y, x, y,
                                IF variant = "gridfluid" THEN 20 * SCALE ELSE 15 * SCALE),
                           x, y)
            ELSE UNCHANGED <<fluid, heap, log, pc, calls>>

\* The body of case SDL_MOUSEMOTION with the pointer over cell (x, y).
DragTo(x, y) ==
    IF variant = "fluid"
    THEN /\ Handled(AddDisk(variant, Machine, x, y, 8 * SCALE, 2, "drag", 1),
                    <<Call("add_disturbance", x - 2, y - 2, x + 2, y + 2, 8 * SCALE)>>, pc)
         /\ calls' = calls + 1
         /\ UNCHANGED <<prev_mouse_x, prev_mouse_y>>
    ELSE /\ prev_mouse_x' = x
         /\ prev_mouse_y' = y
         /\ IF prev_mouse_x # -1 /\ prev_mouse_y # -1
            THEN DragTrail(add_continuous_wave(variant, Machine, prev_mouse_x, prev_mouse_y,
                                               x, y,
                                               IF variant = "gridfluid" THEN 20 * SCALE
                                               ELSE 15 * SCALE),
                           Call("add_continuous_wave", prev_mouse_x, prev_mouse_y, x, y,
                                IF variant = "gridfluid" THEN 20 * SCALE ELSE 15 * SCALE),
                           x, y)
            ELSE UNCHANGED <<fluid, heap, log, pc, calls>>

\* case SDL_MOUSEMOTION
OnMouseMotion ==
    /\ Polled
    /\ \E lmask \in BOOLEAN, e \in MousePixels :
          IF mouse_down # 0 /\ lmask
          THEN DragTo(TruncDiv(e[1], CELL_SIZE), TruncDiv(e[2], CELL_SIZE))
          ELSE UNCHANGED <<fluid, heap, log, pc, calls, prev_mouse_x, prev_mouse_y>>
    /\ UNCHANGED <<running, mouse_down>>

\* case SDL_MOUSEBUTTONUP
OnMouseButtonUp ==
    /\ Polled
    /\ \E left \in BOOLEAN :
          IF variant = "fluid"
          THEN mouse_down' = 0 /\ UNCHANGED <<prev_mouse_x, prev_mouse_y>>
          ELSE IF left
          THEN mouse_down' = 0 /\ prev_mouse_x' = -1 /\ prev_mouse_y' = -1
          ELSE UNCHANGED <<mouse_down, prev_mouse_x, prev_mouse_y>>
    /\ UNCHANGED <<fluid, heap, log, pc, calls, running>>

\* case SDL_KEYDOWN, SDLK_SPACE
OnKeySpace ==
    /\ Polled
    /\ \E c \in RandCells :
          CASE variant = "fluid" ->
                 Handled(add_disturbance(variant, Machine, c[1], c[2], 20 * SCALE),
                         <<Call("add_disturbance", c[1], c[2], c[1], c[2], 20 * SCALE)>>, pc)
            [] variant = "gridfluid" ->
                 Handled(add_velocity_field(variant, Machine, c[1], c[2], 30 * SCALE),
                         <<Call("add_velocity_field", c[1], c[2], c[1], c[2], 30 * SCALE)>>,
                         pc)
            [] OTHER ->
                 Handled(add_water_drop(variant, Machine, c[1], c[2], 25 * SCALE),
                         <<Call("add_water_drop", c[1], c[2], c[1], c[2], 25 * SCALE)>>, pc)
    /\ calls' = calls + 1
    /\ UNCHANGED <<running, mouse_down, prev_mouse_x, prev_mouse_y>>

\* case SDL_KEYDOWN, SDLK_r: free_fluid(&fluid); init_fluid(&fluid);
\* fluid.c has no such branch.
OnKeyR ==
    /\ Polled
    /\ IF variant = "fluid"
       THEN UNCHANGED <<fluid, heap, log, pc>>
       ELSE \E a \in ResetAllocs :
               Handled(init_fluid(free_fluid(Machine), a),
                       <<NoCall("free_fluid"), NoCall("init_fluid")>>, pc)
    /\ UNCHANGED <<calls, running, mouse_down, prev_mouse_x, prev_mouse_y>>

\* case SDL_KEYDOWN, SDLK_ESCAPE
OnKeyEscape ==
    /\ Polled
    /\ running' = 0
    /\ UNCHANGED <<fluid, heap, log, pc, calls, mouse_down, prev_mouse_x, prev_mouse_y>>

\* SDL_PollEvent returns 0: the inner loop ends.
PollEmpty ==
    /\ pc = "poll"
    /\ pc' = "update"
    /\ UNCHANGED <<fluid, heap, frenderer, running, mouse_down, prev_mouse_x,
                   prev_mouse_y, pending, frames, log, calls, updates>>
    /\ Build

\* UpdateFluid inside the event loop: the drain goes on after the step.
UpdateFluid_InDrain ==
    /\ pc = "update"
    /\ Handled(update_fluid(Machine), <<NoCall("update_fluid")>>, "poll")
    /\ updates' = updates + 1
    /\ UNCHANGED <<frenderer, running, mouse_down, prev_mouse_x, prev_mouse_y,
                   pending, frames, calls>>
    /\ Build

\* update_fluid(&fluid);
UpdateFluid ==
    /\ pc = "update"
    /\ Handled(update_fluid(Machine), <<NoCall("update_fluid")>>, "render")
    /\ updates' = updates + 1
    /\ UNCHANGED <<frenderer, running, mouse_down, prev_mouse_x, prev_mouse_y,
                   pending, frames, calls>>
    /\ Build

\* render_fluid (with update_fluid_texture in realfluid.c), SDL_RenderPresent,
\* SDL_Delay(16): the frame is over.
RenderFluid ==
    /\ pc = "render"
    /\ Handled(render_fluid(Machine), <<NoCall("render_fluid")>>, "loop")
    /\ frames' = frames + 1
    /\ UNCHANGED <<frenderer, running, mouse_down, prev_mouse_x, prev_mouse_y,
                   pending, calls, updates>>
    /\ Build

\* free_fluid(&fluid) and the SDL teardown; return 0.
Shutdown ==
    /\ pc = "exit"
    /\ Handled(free_fluid(Machine), <<NoCall("free_fluid")>>, "done")
    /\ UNCHANGED <<frenderer, running, mouse_down, prev_mouse_x, prev_mouse_y,
                   pending, frames, calls, updates>>
    /\ Build

Next ==
    \/ StartSDL \/ StartSDLFails \/ InitFluid \/ InitFluidRenderer \/ LoopTest
    \/ OnQuit \/ OnMouseButtonDown \/ OnMouseMotion \/ OnMouseButtonUp
    \/ OnKeySpace \/ OnKeyR \/ OnKeyEscape
    \/ PollEmpty \/ UpdateFluid \/ RenderFluid \/ Shutdown

Spec == MainInit /\ [][Next]_vars

\* The process is scheduled: main does not stop between two statements, and
\* SDL_PollEvent returns 0 once the queue is empty.  update_fluid is enabled
\* exactly when pc = "update" and leaves that place, so its weak fairness is
\* []<>(pc # "update").
SpecLive ==
    /\ MainStart(MaxLiveEvents)
    /\ [][Next]_vars
    /\ WF_vars(StartSDL \/ StartSDLFails)
    /\ WF_vars(InitFluid)
    /\ WF_vars(InitFluidRenderer)
    /\ WF_vars(LoopTest)
    /\ WF_vars(PollEmpty)
    /\ []<>(pc # "update")
    /\ WF_vars(RenderFluid)
    /\ WF_vars(Shutdown)

-----------------------------------------------------------------------------
(* The colour mappers.  A float here is [k, v]: "num" with v thousandths,  *)
(* "negzero" (-0.0f), "max" (a finite float so large that a product by a   *)
(* factor above 1 overflows, v its sign), "inf" (v its sign) or "nan".     *)

Num(v) == [k |-> "num", v |-> v]

IsNum(a) == a.k \in {"num", "negzero"}

Val(a) == IF a.k = "negzero" THEN 0 ELSE a.v

\* The order of the floats, for fminf, fmaxf and >.
Rank(a) ==
    CASE a.k = "inf" -> a.v * 2000000000
      [] a.k = "max" -> a.v * 1900000000
      [] OTHER -> Val(a)

fabsf(a) ==
    CASE a.k \in {"max", "inf"} -> [a EXCEPT !.v = 1]
      [] a.k = "nan" -> a
      [] OTHER -> Num(Abs(Val(a)))

\* a * (n / d), n > 0 and d > 0.
FMul(a, n, d) ==
    CASE a.k = "max" -> IF n > d THEN [k |-> "inf", v |-> a.v] ELSE a
      [] a.k \in {"inf", "nan"} -> a
      [] OTHER -> Num(RoundDiv(Val(a) * n, d))

\* a + b
FAdd(a, b) ==
    CASE a.k = "nan" \/ b.k = "nan" -> [k |-> "nan", v |-> 0]
      [] a.k = "inf" /\ b.k = "inf" -> IF a.v = b.v THEN a ELSE [k |-> "nan", v |-> 0]
      [] a.k = "inf" -> a
      [] b.k = "inf" -> b
      [] a.k = "max" /\ b.k = "max" ->
             IF a.v = b.v THEN [k |-> "inf", v |-> a.v] ELSE Num(0)
      [] a.k = "max" -> a
      [] b.k = "max" -> b
      [] OTHER -> Num(Val(a) + Val(b))

FNeg(a) == IF a.k = "nan" THEN a
           ELSE IF a.k = "negzero" THEN Num(0)
           ELSE [a EXCEPT !.v = -a.v]

FSub(a, b) == FAdd(a, FNeg(b))

\* fmaxf and fminf return the other argument when one is a NaN.
fmaxf(a, b) ==
    IF a.k = "nan" THEN b ELSE IF b.k = "nan" THEN a
    ELSE IF Rank(a) >= Rank(b) THEN a ELSE b

fminf(a, b) ==
    IF a.k = "nan" THEN b ELSE IF b.k = "nan" THEN a
    ELSE IF Rank(a) <= Rank(b) THEN a ELSE b

\* fminf(fmaxf(c, 0.0f), 1.0f) without the clamp.
Clamp01_Off(c) == c

\* fminf(fmaxf(c, 0.0f), 1.0f)
Clamp01(c) == fminf(fmaxf(c, Num(0)), Num(SCALE))

\* The integer a float is converted to by (uint32_t), (uint8_t) or (Uint8)
\* once multiplied by n/SCALE: the truncated value.  The conversion of a
\* negative value, of a value beyond the type, of an infinity or of a NaN is
\* undefined: -1 stands for its outcomes.
Converted(c, n) ==
    IF IsNum(c) /\ Val(c) >= 0 /\ Val(c) <= 1000 * SCALE
    THEN (Val(c) * n) \div SCALE
    ELSE -1

RECURSIVE BitOr(_, _)
\* a | b, for a, b >= 0
BitOr(a, b) ==
    IF a = 0 THEN b ELSE IF b = 0 THEN a
    ELSE ((a % 2) + (b % 2) - (a % 2) * (b % 2)) + 2 * BitOr(a \div 2, b \div 2)

\* Byte i (0 the lowest) of the 32-bit word (v << (8 * at)).
ByteOf(v, at, i) == IF i < at THEN 0 ELSE (v \div (256 ^ (i - at))) % 256

\* (r << 16) | (g << 8) | b | 0xFF000000 as <<alpha, red, green, blue>>.
Pack(r, g, b) ==
    [i \in 1 .. 4 |->
        LET n == 4 - i IN
        BitOr(BitOr(ByteOf(r, 2, n), ByteOf(g, 1, n)),
              BitOr(ByteOf(b, 0, n), IF n = 3 THEN 255 ELSE 0))]

\* The three channel values before their conversion to 8 bits, and the pixel.
Colour(r, g, b, argb) == [raw |-> <<r, g, b>>, argb |-> argb]

\* realfluid.c
water_color(height) ==
    LET foam  == fminf(FMul(fmaxf(Num(0), FSub(height, Num(300))), 3, 1), Num(SCALE))
        light == fminf(FMul(fmaxf(Num(0), height), 3, 2), Num(800))
        r == Clamp01(FAdd(FAdd(Num(100), foam), FMul(light, 3, 10)))
        g == Clamp01(FAdd(FAdd(Num(200), FMul(foam, 8, 10)), FMul(light, 4, 10)))
        b == Clamp01(FAdd(FAdd(Num(400), foam), FMul(light, 2, 10)))
        cr == Converted(r, 255)
        cg == Converted(g, 255)
        cb == Converted(b, 255)
    IN  Colour(cr, cg, cb,
               IF cr < 0 \/ cg < 0 \/ cb < 0 THEN <<>> ELSE Pack(cr, cg, cb))

\* realfluid.c
bw_water_color(height) ==
    LET i0 == FMul(fabsf(height), 3, 1)
        i1 == IF height.k # "nan" /\ Rank(height) > 200
              THEN FSub(i0, FMul(FMul(FSub(height, Num(200)), 4, 1), 1, 2))
              ELSE i0
        intensity == Clamp01(i1)
        raw   == Converted(FSub(Num(SCALE), intensity), 255)
        value == raw % 256
    IN  Colour(raw, raw, raw,
               IF raw < 0 THEN <<>> ELSE <<255, value, value, value>>)

\* The double fmin(fabs(value) * gain, 255) converted to Uint8.
Intensity8(height, gain) ==
    LET a == fabsf(height)
        p == IF IsNum(a) THEN Num(Val(a) * gain) ELSE a
    IN  Converted(fminf(p, Num(255 * SCALE)), 1)

\* fluid.c, render_fluid: intensity/3, intensity/2, intensity, 255.
CellColorFluid(height) ==
    LET i == Intensity8(height, 255) IN
    IF i < 0 THEN Colour(i, i, i, <<>>)
    ELSE Colour(i \div 3, i \div 2, i, <<255, (i \div 3) % 256, (i \div 2) % 256, i % 256>>)

\* gridfluid.c, render_fluid: color = 255 - intensity.
CellColorGrid(height) ==
    LET i == Intensity8(height, 512)
        c == 255 - i
    IN  IF i < 0 THEN Colour(i, i, i, <<>>)
        ELSE Colour(c, c, c, <<255, c % 256, c % 256, c % 256>>)

\* gridfluid.c, render_fluid_alternative
CellColorAlternative(height) ==
    LET i == Intensity8(height, 400)
        c == IF Rank(fabsf(height)) > 100 THEN 255 - i ELSE 255
    IN  IF i < 0 THEN Colour(i, i, i, <<>>)
        ELSE Colour(c, c, c, <<255, c % 256, c % 256, c % 256>>)

-----------------------------------------------------------------------------
(* The colour mappers applied to the cells of a grid of arbitrary finite   *)
(* heights.                                                                *)

MaxColorCalls == 2

ColorBuilds == Variants \X {2} \X {1}

ColorMagnitudes == {0, 1, 50, 100, 101, 199, 200, 201, 299, 300, 301, 400, 498,
                    500, 633, 634, 800, 999, 1000, 1001, 2000, 30000, 1000000}

ColorHeights ==
    {Num(s * v) : s \in {-1, 1}, v \in ColorMagnitudes}
        \cup {[k |-> "negzero", v |-> 0], [k |-> "max", v |-> 1], [k |-> "max", v |-> -1]}

ColorCall(op, idx, height, colour) ==
    [op |-> op, idx |-> idx, height |-> height, colour |-> colour]

ColorInit ==
    /\ \E b \in ColorBuilds : variant = b[1] /\ GRID_WIDTH = b[2] /\ GRID_HEIGHT = b[3]
    /\ fluid = [current |-> 1, previous |-> 2, damping |-> DAMPING]
    /\ \E cur \in [Cells -> ColorHeights] :
           heap = [b \in Blocks |-> IF b = 1 THEN cur ELSE ZeroBlock]
    /\ frenderer = [pixels |-> NULL]
    /\ pc = "render"
    /\ running = 1
    /\ mouse_down = 0
    /\ prev_mouse_x = -1
    /\ prev_mouse_y = -1
    /\ pending = 0
    /\ frames = 0
    /\ log = <<>>
    /\ calls = 0
    /\ updates = 0

\* One cell of the render loop: float value = fluid->current[idx], then its colour.
ColorCell(op, idx, colour) ==
    /\ pc = "render" /\ calls < MaxColorCalls
    /\ log' = Append(log, ColorCall(op, idx, heap[fluid.current][idx], colour))
    /\ calls' = calls + 1
    /\ UNCHANGED <<variant, GRID_WIDTH, GRID_HEIGHT, fluid, heap, frenderer, pc,
                   running, mouse_down, prev_mouse_x, prev_mouse_y, pending,
                   frames, updates>>

ColorRenderFluid ==
    /\ variant = "fluid"
    /\ \E idx \in Cells :
           ColorCell("render_fluid", idx, CellColorFluid(heap[fluid.current][idx]))

ColorRenderGrid ==
    /\ variant = "gridfluid"
    /\ \E idx \in Cells :
           ColorCell("render_fluid", idx, CellColorGrid(heap[fluid.current][idx]))

ColorRenderAlternative ==
    /\ variant = "gridfluid"
    /\ \E idx \in Cells :
           ColorCell("render_fluid_alternative", idx,
                     CellColorAlternative(heap[fluid.current][idx]))

ColorWater ==
    /\ variant = "realfluid"
    /\ \E idx \in Cells :
           ColorCell("water_color", idx, water_color(heap[fluid.current][idx]))

ColorBwWater ==
    /\ variant = "realfluid"
    /\ \E idx \in Cells :
           ColorCell("bw_water_color", idx, bw_water_color(heap[fluid.current][idx]))

ColorNext ==
    \/ ColorRenderFluid
    \/ ColorRenderGrid
    \/ ColorRenderAlternative
    \/ ColorWater
    \/ ColorBwWater

SpecColor == ColorInit /\ [][ColorNext]_vars

-----------------------------------------------------------------------------
(* What the claims speak of.                                               *)

Last == log[Len(log)]

\* This step has made calls, the last of them one of ops: Last' is that call.
Called(ops) == Len(log') > Len(log) /\ log'[Len(log')].op \in ops

Injectors == {"add_disturbance", "add_continuous_wave", "add_velocity_field",
              "add_water_drop"}

\* The buffer a name of the struct points to.
Buf(h, ptr) == h[ptr]

At(buf, x, y) == buf[y * GRID_WIDTH + x]

Xs == 0 .. (GRID_WIDTH - 1)

Ys == 0 .. (GRID_HEIGHT - 1)

Interior(x, y) == 1 <= x /\ x <= GRID_WIDTH - 2 /\ 1 <= y /\ y <= GRID_HEIGHT - 2

InGrid(x, y) == x \in Xs /\ y \in Ys

Border(x, y) == InGrid(x, y) /\ ~Interior(x, y)

IsZero(buf) == \A i \in Cells : buf[i] = 0

Narrow == variant \in {"gridfluid", "realfluid"}

\* damping * (2*P - C + 0.25 * (P[x-1,y] + P[x+1,y] + P[x,y-1] + P[x,y+1] - 4*P)),
\* damping in hundredths, to the nearest height unit.
Leapfrog(P, C, damping, x, y) ==
    RoundDiv(damping * (8 * At(P, x, y) - 4 * At(C, x, y)
                        + At(P, x - 1, y) + At(P, x + 1, y) + At(P, x, y - 1)
                        + At(P, x, y + 1) - 4 * At(P, x, y)),
             400)

-----------------------------------------------------------------------------
(* C1.  The end-to-end scenario: a zero 10 x 10 field, damping 0.99, one   *)
(* narrow point injection of 10 at (5,5), then exactly one update_fluid.   *)

ScenarioRun ==
    /\ Narrow /\ GRID_WIDTH = 10 /\ GRID_HEIGHT = 10
    /\ fluid.damping = DAMPING
    /\ pc = "api"
    /\ log = <<Call("add_disturbance", 5, 5, 5, 5, 10 * SCALE),
               Call("update_fluid", 0, 0, 0, 0, 0)>>

ScenarioNeighbours == {<<4, 5>>, <<6, 5>>, <<5, 4>>, <<5, 6>>}

\* C1 as claimed: after the scenario current[5,5] is -9.9, its four direct
\* neighbours are 2.475 and every other cell of current is 0.
C1_AsClaimed ==
    ScenarioRun =>
        LET cur == Buf(heap, fluid.current) IN
        \A x \in Xs, y \in Ys :
            At(cur, x, y) = IF <<x, y>> = <<5, 5>> THEN -((99 * SCALE) \div 10)
                            ELSE IF <<x, y>> \in ScenarioNeighbours
                                 THEN (2475 * SCALE) \div 1000
                            ELSE 0

\* C1 amended: after the scenario the newly computed buffer, which the swap has
\* named previous, holds +9.9 = 0.99 * (2*10 - 0 + 0.25 * (-40)) at (5,5), 2.475
\* at each of the four direct neighbours and 0 in every other cell, borders
\* included; current is the injected buffer: 10 at (5,5) and 0 elsewhere.
C1_Scenario ==
    ScenarioRun =>
        LET cur == Buf(heap, fluid.current)
            new == Buf(heap, fluid.previous)
        IN  \A x \in Xs, y \in Ys :
              /\ At(new, x, y) = IF <<x, y>> = <<5, 5>> THEN (99 * SCALE) \div 10
                                 ELSE IF <<x, y>> \in ScenarioNeighbours
                                      THEN (2475 * SCALE) \div 1000
                                 ELSE 0
              /\ At(cur, x, y) = IF <<x, y>> = <<5, 5>> THEN 10 * SCALE ELSE 0

C1_Witness == ScenarioRun

-----------------------------------------------------------------------------
(* C2.  One update_fluid, from any buffers P (previous) and C (current):   *)
(* every interior cell of the buffer that was current receives             *)
(* damping * (2*P - C + 0.25 * laplacian(P)), the two names are exchanged  *)
(* once, so previous then names the new values and current names P, which  *)
(* is unchanged.                                                           *)

C2_Step ==
    [][Called({"update_fluid"}) =>
          LET P == Buf(heap, fluid.previous)
              C == Buf(heap, fluid.current)
          IN  /\ pc' = pc
              /\ fluid'.previous = fluid.current
              /\ fluid'.current = fluid.previous
              /\ fluid'.damping = fluid.damping
              /\ Buf(heap', fluid'.current) = P
              /\ \A x \in Xs, y \in Ys :
                    Interior(x, y) =>
                        At(Buf(heap', fluid'.previous), x, y)
                            = Leapfrog(P, C, fluid.damping, x, y)]_vars

\* An update whose P and C were both non-zero: the second of two updates that
\* follow an injection into the interior.
C2_Witness ==
    /\ Len(log) = 3
    /\ log[1].op = "add_disturbance" /\ Interior(log[1].x1, log[1].y1)
    /\ log[2].op = "update_fluid" /\ log[3].op = "update_fluid"
    /\ ~IsZero(Buf(heap, fluid.previous)) /\ ~IsZero(Buf(heap, fluid.current))
    /\ pc = "api"

-----------------------------------------------------------------------------
(* C3.  update_fluid leaves every border cell of both buffers as it was,   *)
(* whatever the buffers hold; where injections reach interior cells only   *)
(* (the narrow add_disturbance) the border cells of both buffers are 0     *)
(* after any number of updates.                                            *)

C3_BorderInert ==
    [][Called({"update_fluid"}) =>
          /\ \A b \in Blocks : \A x \in Xs, y \in Ys :
                Border(x, y) => At(heap'[b], x, y) = At(heap[b], x, y)
          /\ Narrow => \A b \in Blocks : \A x \in Xs, y \in Ys :
                          Border(x, y) => At(heap'[b], x, y) = 0]_vars

\* Two updates of a field whose border is not zero (fluid.c writes the 8
\* neighbours of an injection at (1,1), five of them border cells).
C3_Witness ==
    /\ updates = 2 /\ Last.op = "update_fluid" /\ pc = "api"
    /\ \E b \in Blocks : At(heap[b], 0, 0) # 0
    /\ \E b \in Blocks : \E x \in Xs, y \in Ys : Interior(x, y) /\ At(heap[b], x, y) # 0

-----------------------------------------------------------------------------
(* C4.  An injection changes only interior cells of previous: never a      *)
(* border cell, never current, never memory outside the grid; a target     *)
(* that is out of range is skipped without an error.                       *)

\* C4 as claimed: across an injector call current, every border cell of
\* previous and the struct are unchanged, and the call does not fault.
C4_AsClaimed ==
    [][Called(Injectors) =>
          /\ pc' = pc
          /\ fluid' = fluid
          /\ heap'[fluid.current] = heap[fluid.current]
          /\ \A x \in Xs, y \in Ys :
                Border(x, y) => At(heap'[fluid.previous], x, y)
                                    = At(heap[fluid.previous], x, y)]_vars

-----------------------------------------------------------------------------
(* C5.  add_disturbance at a coordinate that is a border cell or lies      *)
(* outside the grid leaves both buffers as they were and raises no error   *)
(* (the coordinate is not clamped to an edge cell).                        *)

C5_OffInteriorPoint ==
    [][(Called({"add_disturbance"}) /\ ~Interior(Last'.x1, Last'.y1)) =>
          /\ heap' = heap
          /\ fluid' = fluid
          /\ pc' = pc]_vars

\* Such a call, on the right-hand border column, on a field that is not zero.
C5_Witness ==
    /\ Len(log) = 2 /\ pc = "api"
    /\ log[1].op = "add_disturbance" /\ Interior(log[1].x1, log[1].y1)
    /\ log[2].op = "add_disturbance" /\ log[2].x1 = GRID_WIDTH - 1 /\ log[2].y1 \in Ys
    /\ ~IsZero(Buf(heap, fluid.previous))

-----------------------------------------------------------------------------
(* C6.  The disk injections (add_velocity_field, add_water_drop) of radius *)
(* 3 act only when radius <= x <= GRID_WIDTH - 1 - radius and the same for *)
(* y, and are a complete no-op otherwise; when they act, the whole kernel  *)
(* is applied, no cell of it clipped.                                      *)

DiskRadius == 3

DiskKind(op) == IF op = "add_velocity_field" THEN "velocity" ELSE "drop"

\* C6 as claimed: a disk injection whose centre is less than radius cells from
\* a border changes nothing, and any other applies every cell of its kernel.
C6_AsClaimed ==
    [][Called({"add_velocity_field", "add_water_drop"}) =>
          LET c == Last'
              r == DiskRadius
              inside == /\ r <= c.x1 /\ c.x1 <= GRID_WIDTH - 1 - r
                        /\ r <= c.y1 /\ c.y1 <= GRID_HEIGHT - 1 - r
          IN  /\ ~inside => heap' = heap
              /\ inside =>
                    \A dx \in -r .. r, dy \in -r .. r :
                        dx * dx + dy * dy <= r * r =>
                            At(heap'[fluid.previous], c.x1 + dx, c.y1 + dy)
                              = At(heap[fluid.previous], c.x1 + dx, c.y1 + dy)
                                + RoundDiv(c.intensity
                                             * Kernel(DiskKind(c.op), dx * dx + dy * dy),
                                           1000)]_vars

-----------------------------------------------------------------------------
(* C7.  add_continuous_wave between two distinct endpoints, with non-zero  *)
(* intensity.                                                              *)

WaveCall(c) == c.op = "add_continuous_wave" /\ <<c.x1, c.y1>> # <<c.x2, c.y2>>
               /\ c.intensity # 0

Steps(c) == WaveSteps(variant, c.x2 - c.x1, c.y2 - c.y1)

\* The cell the loop computes for sample i of the call c.
Sample(c, i) == WaveSample(variant, c.x1, c.y1, c.x2 - c.x1, c.y2 - c.y1, i, Steps(c))

Near(p, q) == Abs(p[1] - q[1]) <= 1 /\ Abs(p[2] - q[2]) <= 1

\* The sampled cells the variant injects at: gridfluid.c calls add_disturbance
\* around every sample, realfluid.c only for samples 2 cells off the border.
Reached(p) == IF variant = "gridfluid" THEN Interior(p[1], p[2])
              ELSE InGuard(p[1], p[2], 2)

GapFree(c) == \A i \in 0 .. (Steps(c) - 1) : Near(Sample(c, i), Sample(c, i + 1))

\* C7 as claimed: the samples run from (x1,y1) to (x2,y2) with consecutive
\* samples at most one cell apart, and cells sampled between the endpoints
\* receive energy, also for a line along the border row such as (0,0)-(10,0).
C7_AsClaimed ==
    [][(Called({"add_continuous_wave"}) /\ WaveCall(Last')
          /\ InGrid(Last'.x1, Last'.y1) /\ InGrid(Last'.x2, Last'.y2)) =>
          LET c == Last'
              between == {i \in 1 .. (Steps(c) - 1) :
                            Sample(c, i) \notin {<<c.x1, c.y1>>, <<c.x2, c.y2>>}}
          IN  /\ Sample(c, 0) = <<c.x1, c.y1>>
              /\ Sample(c, Steps(c)) = <<c.x2, c.y2>>
              /\ GapFree(c)
              /\ between # {} =>
                    \E i \in between :
                        At(heap'[fluid.previous], Sample(c, i)[1], Sample(c, i)[2])
                          # At(heap[fluid.previous], Sample(c, i)[1], Sample(c, i)[2])]_vars

\* C7 amended: the first sample is (x1,y1), consecutive samples are at most one
\* cell apart in x and in y, and the last sample is (x2,y2) in gridfluid.c and
\* (x2,y2) or a cell next to it in realfluid.c (where t = steps * (1/steps) can
\* round below 1); every sampled cell the variant injects at (interior cells in
\* gridfluid.c, cells at least 2 off the border in realfluid.c) has previous
\* moved in the direction of the intensity, and a sampled cell on the border,
\* as every cell of the line (0,0)-(10,0) is, is left unchanged.
C7_Trail ==
    [][(Called({"add_continuous_wave"}) /\ WaveCall(Last')) =>
          LET c == Last'
              n == Steps(c)
          IN  /\ pc' = pc
              /\ Sample(c, 0) = <<c.x1, c.y1>>
              /\ GapFree(c)
              /\ Near(Sample(c, n), <<c.x2, c.y2>>)
              /\ variant = "gridfluid" => Sample(c, n) = <<c.x2, c.y2>>
              /\ \A i \in 0 .. n :
                    LET p == Sample(c, i) IN
                    /\ Reached(p) =>
                          Sign(c.intensity) * (At(heap'[fluid.previous], p[1], p[2])
                                               - At(heap[fluid.previous], p[1], p[2])) > 0
                    /\ Border(p[1], p[2]) =>
                          At(heap'[fluid.previous], p[1], p[2])
                            = At(heap[fluid.previous], p[1], p[2])]_vars

\* A line of realfluid.c across the interior whose last sample stops a cell
\* short of (x2,y2): every sample before it is injected.
C7_Witness ==
    /\ pc = "api" /\ Len(log) >= 1 /\ WaveCall(Last)
    /\ Steps(Last) >= 8
    /\ \A i \in 0 .. (Steps(Last) - 1) : Reached(Sample(Last, i))
    /\ variant = "realfluid" /\ Sample(Last, Steps(Last)) # <<Last.x2, Last.y2>>
    /\ ~IsZero(Buf(heap, fluid.previous))

-----------------------------------------------------------------------------
(* C8.  add_continuous_wave with x1 = x2 and y1 = y2 is exactly one        *)
(* add_disturbance at that cell with the intensity as given: previous      *)
(* gains the intensity there when the cell is interior, and nothing        *)
(* changes when it is not.                                                 *)

C8_DegenerateLine ==
    [][(Called({"add_continuous_wave"}) /\ Last'.x1 = Last'.x2 /\ Last'.y1 = Last'.y2) =>
          LET c == Last' IN
          /\ pc' = pc
          /\ fluid' = fluid
          /\ heap' = IF Interior(c.x1, c.y1)
                     THEN [heap EXCEPT ![fluid.previous][Idx(c.x1, c.y1)] = @ + c.intensity]
                     ELSE heap]_vars

\* A degenerate line at an interior cell next to the border, where a sample of
\* a proper line would not be injected in realfluid.c.
C8_Witness ==
    /\ pc = "api" /\ Len(log) >= 1
    /\ Last.op = "add_continuous_wave"
    /\ <<Last.x1, Last.y1>> = <<1, 1>> /\ <<Last.x2, Last.y2>> = <<1, 1>>
    /\ At(Buf(heap, fluid.previous), 1, 1) # 0

-----------------------------------------------------------------------------
(* C9.  The R key.                                                         *)

InLoop == pc \in {"loop", "poll", "update", "render"}

Usable(f) == f.current # NULL /\ f.previous # NULL

\* C9 as claimed: the R key zeroes the two buffers where they are, without
\* allocating: afterwards the struct names the same two buffers, both usable,
\* every cell of both is 0 and damping is what it was.
C9_AsClaimed ==
    [][(pc = "poll" /\ Called({"init_fluid"})) =>
          /\ pc' = pc
          /\ fluid'.current = fluid.current
          /\ fluid'.previous = fluid.previous
          /\ Usable(fluid')
          /\ IsZero(Buf(heap', fluid'.current))
          /\ IsZero(Buf(heap', fluid'.previous))
          /\ fluid'.damping = fluid.damping]_vars

-----------------------------------------------------------------------------
(* C10.  Allocation failure at start-up.                                   *)

NoResetYet == \A i \in 1 .. Len(log) : log[i].op # "free_fluid"

\* C10 as claimed: when a calloc of init_fluid or the malloc of the pixel
\* buffer has failed at start-up, the program stops: it never enters the frame
\* loop with a NULL buffer and never dereferences one.
C10_AsClaimed ==
    NoResetYet =>
        /\ pc # "crashed"
        /\ InLoop => /\ Usable(fluid)
                     /\ variant = "realfluid" => frenderer.pixels # NULL

-----------------------------------------------------------------------------
(* C11.  Frame ordering: a frame is the drain of the events, then one      *)
(* update_fluid, then one render and present, in this order.  Events are   *)
(* taken only in the drain; update_fluid runs once per frame, after the    *)
(* drain has ended and before the render, never between two events of a    *)
(* drain; a frame cut short by a fault has performed a prefix of the       *)
(* order.                                                                  *)

Ops(h) == [i \in 1 .. Len(h) |-> h[i].op]

\* The frame's phase as the calls made so far show it: the number of
\* update_fluid calls not yet followed by their render.
StepsAhead == updates - frames

C11_FrameOrder ==
    [][/\ pending' # pending =>
              /\ pc = "poll" /\ pending' = pending - 1
              /\ updates' = updates /\ frames' = frames
              /\ pc' \in {"poll", "crashed"}
              /\ StepsAhead = 0
       /\ updates' # updates =>
              /\ pc = "update" /\ updates' = updates + 1 /\ StepsAhead = 0
              /\ Ops(log') = Append(Ops(log), "update_fluid")
              /\ pc' \in {"render", "crashed"}
       /\ frames' # frames =>
              /\ pc = "render" /\ frames' = frames + 1 /\ StepsAhead = 1
              /\ Ops(log') = Append(Ops(log), "render_fluid")
              /\ Last.op = "update_fluid"
       /\ (pc = "poll" /\ pc' = "update") => (log' = log /\ StepsAhead = 0)
       /\ (Len(log') > Len(log) /\ Last'.op \in Injectors) => pc = "poll"
       /\ (pc = "loop" /\ pc' = "poll") => StepsAhead = 0]_vars

\* The second frame is over, and the drain of a frame took two events that
\* injected, one after the other, before its update_fluid.
C11_Witness ==
    /\ pc = "loop" /\ frames = 2 /\ updates = 2
    /\ \E i \in 1 .. (Len(log) - 3) :
          /\ log[i].op \in Injectors /\ log[i + 1].op \in Injectors
          /\ log[i + 2].op = "update_fluid" /\ log[i + 3].op = "render_fluid"

-----------------------------------------------------------------------------
(* C12.  Quit is coarse: once SDL_QUIT or ESC has cleared running, the     *)
(* frame goes on as any other (the rest of its drain, its update_fluid,    *)
(* its render and present), the loop test that follows leaves the loop,    *)
(* and no drain, update_fluid or injection is started after that; running  *)
(* is never set again.  The process ends in done, unless a fault (a NULL   *)
(* buffer) ends it first.                                                  *)

C12_CoarseQuit ==
    /\ [][running = 0 =>
            /\ running' = 0
            /\ pc = "poll" => pc' \in {"poll", "update", "crashed"}
            /\ pc = "update" => (pc' \in {"render", "crashed"} /\ updates' = updates + 1)
            /\ pc = "render" => (pc' \in {"loop", "crashed"} /\ frames' = frames + 1)
            /\ pc = "loop" => pc' = "exit"
            /\ pc = "exit" => pc' = "done"
            /\ pc \in {"loop", "exit", "done"} =>
                  (updates' = updates /\ calls' = calls /\ pending' = pending
                   /\ frames' = frames /\ heap' = heap)]_vars
    /\ (running = 0 /\ pc = "poll") ~> (pc \in {"done", "crashed"})
    /\ (running = 0 /\ pc = "poll" /\ Usable(fluid) /\ pending = 0) ~> (pc = "done")

\* The program has ended after a quit in its second frame, and that frame had
\* its update_fluid and its render.
C12_Witness ==
    /\ pc = "done" /\ running = 0
    /\ frames = 2 /\ updates = 2
    /\ Ops(log)[Len(log) - 2] = "update_fluid"
    /\ Ops(log)[Len(log) - 1] = "render_fluid"
    /\ Last.op = "free_fluid"


(* C13. Colour mapping boundedness: for every finite height, of large      *)
(* magnitude, of either sign or a zero of either sign, each colour mapper  *)
(* (water_color, bw_water_color and the per-cell mappings of the three     *)
(* render loops) produces red, green and blue values that are within       *)
(* 0 .. 255 before their conversion to 8 bits, so that the conversion      *)
(* neither wraps nor is undefined, and the pixel is those three values     *)
(* under an alpha of 255.                                                  *)
ColourMappers == {"render_fluid", "render_fluid_alternative", "water_color",
                  "bw_water_color"}

C13_ColourBounded ==
    \A i \in 1 .. Len(log) :
        log[i].op \in ColourMappers =>
            LET c == log[i].colour IN
            /\ \A n \in 1 .. 3 : c.raw[n] \in 0 .. 255
            /\ c.argb = <<255, c.raw[1], c.raw[2], c.raw[3]>>

\* water_color has coloured a cell of the largest finite height (foam and
\* light overflow to infinity before their clamps) and bw_water_color has
\* coloured it too (its intensity is a NaN before the clamp).
C13_Witness ==
    /\ Len(log) = 2
    /\ log[1].op = "water_color" /\ log[2].op = "bw_water_color"
    /\ log[1].idx = log[2].idx
    /\ log[1].height = [k |-> "max", v |-> 1]
    /\ log[1].colour.argb = <<255, 255, 255, 255>>
    /\ log[2].colour.argb = <<255, 255, 255, 255>>


(* C14. Drag-state invariant (gridfluid.c, realfluid.c): with pointer      *)
(* coordinates that are not negative, the stored previous pointer          *)
(* coordinate is set (neither part is -1) exactly when mouse_down is 1,    *)
(* and it is then the coordinate of the latest press or move of the drag;  *)
(* add_continuous_wave is called only by a pointer move handled while the  *)
(* drag is on, once, from the stored coordinate to the coordinate of the   *)
(* move, which becomes the stored one; the release of the left button      *)
(* clears the stored coordinate and draws nothing.                         *)
PointerCall(c) ==
    \/ c.op = "add_continuous_wave"
    \/ c.op = "add_velocity_field" /\ c.intensity \in {25 * SCALE, 15 * SCALE}
    \/ c.op = "add_water_drop" /\ c.intensity = 20 * SCALE

PointerCalls == {i \in 1 .. Len(log) : PointerCall(log[i])}

LastPointerCall == log[CHOOSE i \in PointerCalls : \A j \in PointerCalls : j <= i]

NewWaves == {i \in (Len(log) + 1) .. Len(log') : log'[i].op = "add_continuous_wave"}

C14_DragState ==
    /\ [](variant # "fluid" =>
            /\ mouse_down \in {0, 1}
            /\ mouse_down = 1 => (prev_mouse_x >= 0 /\ prev_mouse_y >= 0)
            /\ mouse_down = 0 => (prev_mouse_x = -1 /\ prev_mouse_y = -1)
            /\ mouse_down = 1 =>
                  /\ PointerCalls # {}
                  /\ prev_mouse_x = LastPointerCall.x2
                  /\ prev_mouse_y = LastPointerCall.y2)
    /\ [][variant # "fluid" =>
            /\ NewWaves # {} =>
                  /\ NewWaves = {Len(log) + 1}
                  /\ pc = "poll" /\ pending' = pending - 1
                  /\ mouse_down = 1 /\ mouse_down' = 1
                  /\ log'[Len(log) + 1].x1 = prev_mouse_x
                  /\ log'[Len(log) + 1].y1 = prev_mouse_y
                  /\ log'[Len(log) + 1].x2 = prev_mouse_x'
                  /\ log'[Len(log) + 1].y2 = prev_mouse_y'
            /\ (mouse_down = 1 /\ mouse_down' = 0) =>
                  (prev_mouse_x' = -1 /\ prev_mouse_y' = -1 /\ log' = log)
            /\ (mouse_down = 1 /\ pc = "poll" /\ pc' = "poll" /\ pending' # pending
                  /\ <<prev_mouse_x', prev_mouse_y'>> # <<prev_mouse_x, prev_mouse_y>>
                  /\ mouse_down' = 1 /\ Len(log') > Len(log)
                  /\ log'[Len(log) + 1].op # "add_continuous_wave") =>
                     \* a second press: the drag starts again from it
                     log'[Len(log) + 1].op \in {"add_velocity_field", "add_water_drop"}]_vars

\* A press and two moves of a drag in realfluid.c: the second line starts
\* where the first ended, and the stored coordinate is the end of the second.
C14_Witness ==
    /\ variant = "realfluid" /\ mouse_down = 1 /\ pc = "poll"
    /\ Len(log) >= 3
    /\ LET n == Len(log) IN
       /\ log[n - 2].op = "add_water_drop"
       /\ log[n - 1].op = "add_continuous_wave" /\ log[n].op = "add_continuous_wave"
       /\ <<log[n - 1].x1, log[n - 1].y1>> = <<log[n - 2].x1, log[n - 2].y1>>
       /\ <<log[n].x1, log[n].y1>> = <<log[n - 1].x2, log[n - 1].y2>>
       /\ <<log[n - 1].x1, log[n - 1].y1>> # <<log[n - 1].x2, log[n - 1].y2>>
       /\ <<log[n].x2, log[n].y2>> # <<log[n].x1, log[n].y1>>
       /\ <<prev_mouse_x, prev_mouse_y>> = <<log[n].x2, log[n].y2>>


(* C15. The in-place stencil is hazard-free: in one update_fluid every     *)
(* interior cell of current receives a value computed from its own value   *)
(* and the cells of previous as they were before the call, previous is not *)
(* written, and so the outcome is the same in whatever order the interior  *)
(* cells are visited; an update_fluid on two buffers never faults; and     *)
(* after any steps, injections and resets no block is named by both        *)
(* current and previous.                                                   *)
InteriorCount == (GRID_WIDTH - 2) * (GRID_HEIGHT - 2)

\* The k-th interior cell, from 0, in the order of the two loops of update_fluid.
LoopCell(k) == Idx(1 + (k % (GRID_WIDTH - 2)), 1 + (k \div (GRID_WIDTH - 2)))

\* The k-th interior cell, from 0, column by column.
ColumnCell(k) == Idx(1 + (k \div (GRID_HEIGHT - 2)), 1 + (k % (GRID_HEIGHT - 2)))

RECURSIVE GCD(_, _)
GCD(a, b) == IF b = 0 THEN a ELSE GCD(b, a % b)

\* Other orders of visit: the reverse of the loops, strides through the loop
\* order from either end, and column by column.
VisitOrders ==
    LET n == InteriorCount IN
    {[i \in 1 .. n |-> LoopCell((a * (i - 1) + b) % n)] :
        a \in {c \in {n - 1, 5, 7} : GCD(c, n) = 1}, b \in {0, n - 1}}
        \cup {[i \in 1 .. n |-> ColumnCell(i - 1)]}

RECURSIVE VisitCells(_, _, _)
VisitCells(m, order, i) ==
    IF i > Len(order) THEN m
    ELSE LET m1 == UpdateCell(m, order[i]) IN
         IF m1.fault THEN m1 ELSE VisitCells(m1, order, i + 1)

\* update_fluid with its loops replaced by a visit in the given order.
UpdateInOrder(m, order) == SwapBuffers(VisitCells(m, order, 1))

SameOutcome(m, f, h) == m.fluid = f /\ m.heap = h /\ ~m.fault

C15_HazardFree ==
    /\ [](\A b \in Blocks : ~(fluid.current = b /\ fluid.previous = b))
    /\ [][Called({"update_fluid"}) =>
            /\ Usable(fluid) => pc' # "crashed"
            /\ pc' # "crashed" =>
                  /\ Usable(fluid)
                  /\ heap'[fluid.previous] = heap[fluid.previous]
                  /\ \A k \in 0 .. (InteriorCount - 1) :
                        heap'[fluid.current][LoopCell(k)]
                            = StencilValue(Machine, LoopCell(k))
                  /\ \A o \in VisitOrders :
                        SameOutcome(UpdateInOrder(Machine, o), fluid', heap')]_vars

\* The step of a frame in which the field was reset and then disturbed: the
\* buffers are the two blocks, exchanged by the step, and neither is zero.
C15_Witness ==
    /\ pc = "render" /\ Last.op = "update_fluid"
    /\ Usable(fluid) /\ fluid.current # fluid.previous
    /\ ~IsZero(Buf(heap, fluid.previous)) /\ ~IsZero(Buf(heap, fluid.current))
    /\ \E i \in 1 .. Len(log) : \E j \in (i + 1) .. Len(log) :
          log[i].op = "free_fluid" /\ log[j].op \in Injectors

=============================================================================
